---- MODULE Spec2Model ----
(***************************************************************************)
(* Model of colortrade_tools.py: the backtracking edge-colouring solver    *)
(* all_edge_colorings_with_vertex_constraints (with its nested backtrack)  *)
(* and the trade-graph builder is_colortrade / build_trade_graph.          *)
(*                                                                         *)
(* The recursion of backtrack is an explicit stack of frames; one action   *)
(* is one straight-line piece of the function.  A caller calls the solver  *)
(* twice on the same input and then builds the trade graph of the result.  *)
(***************************************************************************)
EXTENDS Integers, Sequences, FiniteSets, TLC

VARIABLES
    G,                \* the graph: [nodes: list(G.nodes()), edges: list(G.edges())]
    vertex_colors,    \* dict v -> list of colours
    colorOrder,       \* the order in which this process iterates a set of colours
    pc,               \* where the caller / the solver stands
    call,             \* 1 or 2: which of the caller's two calls is running
    vi,               \* position of the validation loop in G.nodes()
    error,            \* the exception raised, kind "none" if none
    allowed,          \* line 113
    deg,              \* line 131
    remaining_colors, \* line 132
    used_colors,      \* line 133
    colored_incident, \* line 134
    edge_colors,      \* line 136
    solutions,        \* line 137
    stack,            \* the frames of backtrack, innermost last
    backtrackCalls,   \* how many times backtrack was entered in this call
    result,           \* the list the solver returned (the caller's sols)
    firstResult,      \* the list the first call returned
    snap,             \* history: per frame, the search state when the frame
                      \* was entered, and before and after the assignment of
                      \* the current iteration of its loop
    pruned,           \* history: branches the forward check abandoned in this call
    T                 \* the trade graph: [nodes, edges], an edge is a set {i, j}

vars == <<G, vertex_colors, colorOrder, pc, call, vi, error, allowed, deg,
          remaining_colors, used_colors, colored_incident, edge_colors,
          solutions, stack, backtrackCalls, result, firstResult, snap,
          pruned, T>>

(***************************************************************************)
(* Bounds of the explored inputs.                                          *)
(***************************************************************************)
MaxNodes == 3
NumColors == 2
MaxSols == 3

Colors == 1..NumColors
MaxListLen == MaxNodes - 1

(***************************************************************************)
(* Helpers on lists, sets and graphs.                                      *)
(***************************************************************************)
Range(s) == {s[i] : i \in DOMAIN s}

EmptyDict == <<>>

\* faulty variant, breaks C17: the first candidate is visited twice
OrderRepeatsFirst(S) ==
    LET all == SelectSeq(colorOrder, LAMBDA c : c \in S)
    IN  IF all = <<>> THEN <<>> ELSE <<all[1]>> \o all

\* faulty variant, breaks C11: the loop left after its first candidate
OrderFirstOnly(S) ==
    LET all == SelectSeq(colorOrder, LAMBDA c : c \in S)
    IN  IF all = <<>> THEN <<>> ELSE <<all[1]>>

\* for c in <a set>: the elements in this process's iteration order
Order(S) == SelectSeq(colorOrder, LAMBDA c : c \in S)

Orderings(S) ==
    {s \in [1..Cardinality(S) -> S] : Range(s) = S}

\* G.degree(v): an edge counts once for each of its ends that is v
Degree(g, v) ==
    Cardinality({i \in DOMAIN g.edges : g.edges[i][1] = v})
    + Cardinality({i \in DOMAIN g.edges : g.edges[i][2] = v})

edges == G.edges
m == Len(edges)

NoError == [kind |-> "none", v |-> 0, deg |-> 0, ncolors |-> 0]

(***************************************************************************)
(* all_edge_colorings_with_vertex_constraints: validation (lines 109-125). *)
(***************************************************************************)

\* faulty variant, breaks C3: only asks that every vertex has a colour list
KeysCoverNodes(g, vc) == Range(g.nodes) \subseteq DOMAIN vc

\* line 110: set(G.nodes()) != set(vertex_colors.keys()), negated
KeysMatch(g, vc) == Range(g.nodes) = DOMAIN vc

\* lines 110-113: the vertex-set check, then the allowed sets
CheckVertexSet ==
    /\ pc = "check_keys"
    /\ IF ~ KeysMatch(G, vertex_colors)
       THEN /\ error' = [NoError EXCEPT !.kind = "VertexSetMismatch"]
            /\ pc' = "raised"
            /\ UNCHANGED <<allowed, vi>>
       ELSE /\ allowed' = [v \in DOMAIN vertex_colors |-> Range(vertex_colors[v])]
            /\ vi' = 1
            /\ pc' = "check_vertex"
            /\ UNCHANGED error
    /\ backtrackCalls' = 0
    /\ UNCHANGED <<G, vertex_colors, colorOrder, call, deg, remaining_colors,
                   used_colors, colored_incident, edge_colors, solutions,
                   stack, result, firstResult, snap, pruned, T>>

DuplicateColor(v) ==
    [kind |-> "DuplicateColor", v |-> v, deg |-> 0, ncolors |-> 0]

DegreeMismatch(v, d, n) ==
    [kind |-> "DegreeMismatch", v |-> v, deg |-> d, ncolors |-> n]

\* faulty variant, breaks C4: the degree check placed before the duplicate check
VertexCheckDegreeFirst(v) ==
    LET d == Degree(G, v)
        colors_v == allowed[v]
    IN  IF d # Cardinality(colors_v)
        THEN DegreeMismatch(v, d, Cardinality(colors_v))
        ELSE IF Cardinality(colors_v) # Len(vertex_colors[v])
        THEN DuplicateColor(v)
        ELSE NoError

\* faulty variant, breaks C5: only a colour list longer than the degree is refused
VertexCheckTooManyOnly(v) ==
    LET d == Degree(G, v)
        colors_v == allowed[v]
    IN  IF Cardinality(colors_v) # Len(vertex_colors[v])
        THEN DuplicateColor(v)
        ELSE IF d < Cardinality(colors_v)
        THEN DegreeMismatch(v, d, Cardinality(colors_v))
        ELSE NoError

\* faulty variant, breaks C15: only a colour list shorter than the degree is refused
VertexCheckTooFewOnly(v) ==
    LET d == Degree(G, v)
        colors_v == allowed[v]
    IN  IF Cardinality(colors_v) # Len(vertex_colors[v])
        THEN DuplicateColor(v)
        ELSE IF d > Cardinality(colors_v)
        THEN DegreeMismatch(v, d, Cardinality(colors_v))
        ELSE NoError

\* lines 117-125: the two checks on one vertex, the error raised or NoError
VertexCheck(v) ==
    LET d == Degree(G, v)
        colors_v == allowed[v]
    IN  IF Cardinality(colors_v) # Len(vertex_colors[v])
        THEN DuplicateColor(v)
        ELSE IF d # Cardinality(colors_v)
        THEN DegreeMismatch(v, d, Cardinality(colors_v))
        ELSE NoError

\* lines 116-125: one iteration of the loop over G.nodes()
CheckVertex ==
    /\ pc = "check_vertex"
    /\ vi <= Len(G.nodes)
    /\ LET e == VertexCheck(G.nodes[vi])
       IN  IF e.kind # "none"
           THEN /\ error' = e
                /\ pc' = "raised"
                /\ vi' = vi
           ELSE /\ vi' = vi + 1
                /\ UNCHANGED <<error, pc>>
    /\ UNCHANGED <<G, vertex_colors, colorOrder, call, allowed, deg,
                   remaining_colors, used_colors, colored_incident,
                   edge_colors, solutions, stack, backtrackCalls, result,
                   firstResult, snap, pruned, T>>

(***************************************************************************)
(* The search (lines 127-188).                                             *)
(***************************************************************************)

\* a frame of backtrack(edge_index): "enter" before line 140, "loop" at the
\* head of the for loop of line 153 with todo the colours still to come,
\* "undo" before line 179 with c the colour of this iteration
Frame(k) == [edge_index |-> k, pc |-> "enter", todo |-> <<>>, c |-> <<>>]

Top == stack[Len(stack)]
Pop == SubSeq(stack, 1, Len(stack) - 1)
SetTop(f) == [stack EXCEPT ![Len(stack)] = f]

\* faulty variant, breaks C8: the list outlives the call, as a module-level list would
KeptList(old) == old

\* line 137: solutions = [], a fresh list whatever an earlier call left
NewList(old) == <<>>

\* the bookkeeping that assignments change and undo must restore
SearchState(rem, used, ci, ec) ==
    [remaining_colors |-> rem, used_colors |-> used,
     colored_incident |-> ci, edge_colors |-> ec]

Snap(s) == [entry |-> s, before |-> s, after |-> s]

\* lines 127-137 and the call backtrack(0) of line 187
InitSearch ==
    /\ pc = "check_vertex"
    /\ vi > Len(G.nodes)
    /\ deg' = [v \in Range(G.nodes) |-> Degree(G, v)]
    /\ remaining_colors' = [v \in Range(G.nodes) |-> allowed[v]]
    /\ used_colors' = [v \in Range(G.nodes) |-> {}]
    /\ colored_incident' = [v \in Range(G.nodes) |-> 0]
    /\ edge_colors' = EmptyDict
    /\ solutions' = NewList(solutions)
    /\ stack' = <<Frame(0)>>
    /\ backtrackCalls' = 1
    /\ snap' = <<Snap(SearchState(remaining_colors', used_colors',
                                  colored_incident', edge_colors'))>>
    /\ pruned' = 0
    /\ pc' = "search"
    /\ UNCHANGED <<G, vertex_colors, colorOrder, call, vi, error, allowed,
                   result, firstResult, T>>

\* faulty variant, breaks C7: any() in place of all()
SomeUsed == \E v \in Range(G.nodes) : Cardinality(remaining_colors[v]) = 0

\* line 142: every vertex has used all its colours
AllUsed == \A v \in Range(G.nodes) : Cardinality(remaining_colors[v]) = 0

\* faulty variant, breaks C6: the colours still unused at the first end only
PossibleColorsAtU(u, v) == remaining_colors[u]

\* line 149: colours still unused at both ends
PossibleColors(u, v) == remaining_colors[u] \cap remaining_colors[v]

\* lines 140-151: the head of backtrack
BacktrackEnter ==
    /\ pc = "search"
    /\ stack # <<>>
    /\ Top.pc = "enter"
    /\ IF Top.edge_index = m
       THEN /\ solutions' = IF AllUsed THEN Append(solutions, edge_colors)
                                       ELSE solutions
            /\ stack' = Pop
       ELSE LET u == edges[Top.edge_index + 1][1]
                v == edges[Top.edge_index + 1][2]
                possible_colors == PossibleColors(u, v)
            IN  /\ stack' = IF possible_colors = {}
                            THEN Pop
                            ELSE SetTop([Top EXCEPT !.pc = "loop",
                                              !.todo = Order(possible_colors)])
                /\ UNCHANGED solutions
    /\ snap' = SubSeq(snap, 1, Len(stack'))
    /\ UNCHANGED <<G, vertex_colors, colorOrder, pc, call, vi, error, allowed,
                   deg, remaining_colors, used_colors, colored_incident,
                   edge_colors, backtrackCalls, result, firstResult, pruned,
                   T>>

\* faulty variant, breaks C2: >= in place of > in the forward check
ForwardOkStrict(u, v, rem, ci) ==
    \A w \in {u, v} : ~ (Cardinality(rem[w]) >= deg[w] - ci[w])

\* lines 168-173: the forward check on the two ends, after the assignment
ForwardOk(u, v, rem, ci) ==
    \A w \in {u, v} : ~ (Cardinality(rem[w]) > deg[w] - ci[w])

\* faulty variant, breaks C12: the key written with its ends swapped
EdgeKeySwapped(u, v) == <<v, u>>

\* line 157: edge_key = (u, v)
EdgeKey(u, v) == <<u, v>>

\* lines 153-176: one iteration of the for loop up to the recursive call.
\* set.remove raises KeyError when the element is absent.
TryColor ==
    /\ pc = "search"
    /\ stack # <<>>
    /\ Top.pc = "loop"
    /\ Top.todo # <<>>
    /\ LET u == edges[Top.edge_index + 1][1]
           v == edges[Top.edge_index + 1][2]
           c == Head(Top.todo)
           edge_key == EdgeKey(u, v)
           used1 == [used_colors EXCEPT ![u] = @ \cup {c}]
           used2 == [used1 EXCEPT ![v] = @ \cup {c}]
           rem1 == [remaining_colors EXCEPT ![u] = @ \ {c}]
           rem2 == [rem1 EXCEPT ![v] = @ \ {c}]
           ci1 == [colored_incident EXCEPT ![u] = @ + 1]
           ci2 == [ci1 EXCEPT ![v] = @ + 1]
           here == [Top EXCEPT !.pc = "undo", !.todo = Tail(@), !.c = <<c>>]
           ec2 == [k \in DOMAIN edge_colors \cup {edge_key} |->
                      IF k = edge_key THEN c ELSE edge_colors[k]]
           was == SearchState(remaining_colors, used_colors,
                              colored_incident, edge_colors)
           now == SearchState(rem2, used2, ci2, ec2)
           noted == [snap EXCEPT ![Len(snap)].before = was,
                                 ![Len(snap)].after = now]
       IN  IF c \notin remaining_colors[u] \/ c \notin rem1[v]
           THEN /\ error' = [NoError EXCEPT !.kind = "KeyError"]
                /\ pc' = "raised"
                /\ UNCHANGED <<edge_colors, used_colors, remaining_colors,
                               colored_incident, stack, backtrackCalls,
                               snap, pruned>>
           ELSE /\ edge_colors' = ec2
                /\ used_colors' = used2
                /\ remaining_colors' = rem2
                /\ colored_incident' = ci2
                /\ IF ForwardOk(u, v, rem2, ci2)
                   THEN /\ stack' = Append(SetTop(here),
                                           Frame(Top.edge_index + 1))
                        /\ backtrackCalls' = backtrackCalls + 1
                        /\ snap' = Append(noted, Snap(now))
                        /\ UNCHANGED pruned
                   ELSE /\ stack' = SetTop(here)
                        /\ snap' = noted
                        /\ pruned' = pruned + 1
                        /\ UNCHANGED backtrackCalls
                /\ UNCHANGED <<error, pc>>
    /\ UNCHANGED <<G, vertex_colors, colorOrder, call, vi, allowed, deg,
                   solutions, result, firstResult, T>>

\* faulty variant, breaks C13: the colour is given back to the first end only
AddBackFirstOnly(rem, u, v, c) == [rem EXCEPT ![u] = @ \cup {c}]

\* lines 181-182: remaining_colors[u].add(c); remaining_colors[v].add(c)
AddBack(rem, u, v, c) ==
    LET rem1 == [rem EXCEPT ![u] = @ \cup {c}]
    IN  [rem1 EXCEPT ![v] = @ \cup {c}]

\* faulty variant, breaks C18: the colour stays in used_colors of the second end
UnuseFirstOnly(used, u, v, c) == [used EXCEPT ![u] = @ \ {c}]

\* lines 183-184: used_colors[u].remove(c); used_colors[v].remove(c)
Unuse(used, u, v, c) ==
    LET used1 == [used EXCEPT ![u] = @ \ {c}]
    IN  [used1 EXCEPT ![v] = @ \ {c}]

\* lines 178-185: undo the assignment, back to the head of the loop
Undo ==
    /\ pc = "search"
    /\ stack # <<>>
    /\ Top.pc = "undo"
    /\ LET u == edges[Top.edge_index + 1][1]
           v == edges[Top.edge_index + 1][2]
           c == Top.c[1]
           edge_key == EdgeKey(u, v)
           ci1 == [colored_incident EXCEPT ![u] = @ - 1]
           ci2 == [ci1 EXCEPT ![v] = @ - 1]
           rem2 == AddBack(remaining_colors, u, v, c)
           used1 == [used_colors EXCEPT ![u] = @ \ {c}]
           used2 == Unuse(used_colors, u, v, c)
       IN  IF \/ c \notin used_colors[u]
              \/ c \notin used1[v]
              \/ edge_key \notin DOMAIN edge_colors
           THEN /\ error' = [NoError EXCEPT !.kind = "KeyError"]
                /\ pc' = "raised"
                /\ UNCHANGED <<edge_colors, used_colors, remaining_colors,
                               colored_incident, stack>>
           ELSE /\ colored_incident' = ci2
                /\ remaining_colors' = rem2
                /\ used_colors' = used2
                /\ edge_colors' = [k \in DOMAIN edge_colors \ {edge_key} |->
                                      edge_colors[k]]
                /\ stack' = SetTop([Top EXCEPT !.pc = "loop", !.c = <<>>])
                /\ UNCHANGED <<error, pc>>
    /\ UNCHANGED <<G, vertex_colors, colorOrder, call, vi, allowed, deg,
                   solutions, backtrackCalls, result, firstResult, snap,
                   pruned, T>>

\* line 153 with the set exhausted: backtrack returns
LoopEnd ==
    /\ pc = "search"
    /\ stack # <<>>
    /\ Top.pc = "loop"
    /\ Top.todo = <<>>
    /\ stack' = Pop
    /\ snap' = SubSeq(snap, 1, Len(stack'))
    /\ UNCHANGED <<G, vertex_colors, colorOrder, pc, call, vi, error, allowed,
                   deg, remaining_colors, used_colors, colored_incident,
                   edge_colors, solutions, backtrackCalls, result,
                   firstResult, pruned, T>>

\* faulty variant, breaks C1: line 143 without dict(): every element of the list is the
\* one dict edge_colors, read when the list is returned
ReturnedAliases(sols, ec) == [i \in DOMAIN sols |-> ec]

\* lines 143 and 188: the list of the copies dict(edge_colors) appended;
\* what edge_colors holds by now does not show in them
Returned(sols, ec) == sols

\* line 188: backtrack(0) has returned
ReturnSolutions ==
    /\ pc = "search"
    /\ stack = <<>>
    /\ result' = Returned(solutions, edge_colors)
    /\ pc' = "done"
    /\ UNCHANGED <<G, vertex_colors, colorOrder, call, vi, error, allowed,
                   deg, remaining_colors, used_colors, colored_incident,
                   edge_colors, solutions, stack, backtrackCalls,
                   firstResult, snap, pruned, T>>

(***************************************************************************)
(* The trade graph (lines 431-451).                                        *)
(***************************************************************************)

\* faulty variant, breaks C9: True as soon as one edge differs
IsColortradeSome(s1, s2) == \E edge \in DOMAIN s1 : ~ (s2[edge] = s1[edge])

\* is_colortrade, lines 431-439: False at the first item of s1 whose
\* colour s2 shares, True when the loop over s1.items() ends
IsColortrade(s1, s2) == \A edge \in DOMAIN s1 : ~ (s2[edge] = s1[edge])

\* faulty variant, breaks C10: combinations_with_replacement
Combinations2WithReplacement(n) ==
    {p \in (0..(n - 1)) \X (0..(n - 1)) : p[1] <= p[2]}

\* combinations(range(n), 2), line 447
Combinations2(n) == {p \in (0..(n - 1)) \X (0..(n - 1)) : p[1] < p[2]}

\* build_trade_graph, lines 441-451; sols[i] of the 0-based list is sols[i+1]
BuildTradeGraphOf(sols) ==
    LET n == Len(sols)
    IN  [nodes |-> 0..(n - 1),
         edges |-> {{p[1], p[2]} : p \in
                      {q \in Combinations2(n) :
                          IsColortrade(sols[q[1] + 1], sols[q[2] + 1])}}]

EmptyGraph == [nodes |-> {}, edges |-> {}]

(***************************************************************************)
(* The caller: solve twice on the same input, then build the trade graph   *)
(* of the returned list (colortrade_tools.py lines 490-496).               *)
(***************************************************************************)

CallAgain ==
    /\ pc = "done"
    /\ call = 1
    /\ firstResult' = result
    /\ call' = 2
    /\ pc' = "check_keys"
    /\ UNCHANGED <<G, vertex_colors, colorOrder, vi, error, allowed, deg,
                   remaining_colors, used_colors, colored_incident,
                   edge_colors, solutions, stack, backtrackCalls, result,
                   snap, pruned, T>>

BuildTradeGraph ==
    /\ \/ pc = "done" /\ call = 2
       \/ pc = "sols_given"
    /\ T' = BuildTradeGraphOf(result)
    /\ pc' = "trade_built"
    /\ UNCHANGED <<G, vertex_colors, colorOrder, call, vi, error, allowed,
                   deg, remaining_colors, used_colors, colored_incident,
                   edge_colors, solutions, stack, backtrackCalls, result,
                   firstResult, snap, pruned>>

(***************************************************************************)
(* Inputs.                                                                 *)
(***************************************************************************)

LexLess(e, f) == e[1] < f[1] \/ (e[1] = f[1] /\ e[2] < f[2])

RECURSIVE EdgeList(_)
\* the edges of E as G.edges() lists them when nodes and edges were added
\* in increasing order: by first end, then by second end
EdgeList(E) ==
    IF E = {} THEN <<>>
    ELSE LET e == CHOOSE x \in E : \A y \in E \ {x} : LexLess(x, y)
         IN  <<e>> \o EdgeList(E \ {e})

RECURSIVE SortedList(_)
SortedList(S) ==
    IF S = {} THEN <<>>
    ELSE LET c == CHOOSE x \in S : \A y \in S : x <= y
         IN  <<c>> \o SortedList(S \ {c})

\* simple graphs on the vertices 1..n
SimpleGraphs(n) ==
    {[nodes |-> [i \in 1..n |-> i], edges |-> EdgeList(E)] :
        E \in SUBSET {p \in (1..n) \X (1..n) : p[1] < p[2]}}

\* the constraint maps that pass the three checks on g: at each vertex a
\* list of degree(v) different colours
ValidConstraints(g) ==
    LET n == Len(g.nodes)
        sets == [v \in 1..n |->
                    {S \in SUBSET Colors : Cardinality(S) = Degree(g, v)}]
    IN  {[v \in 1..n |-> SortedList(choice[v])] :
            choice \in {f \in [1..n -> SUBSET Colors] :
                            \A v \in 1..n : f[v] \in sets[v]}}

\* colour lists of any content up to MaxListLen; the solver reads a list
\* only through set(cs) and len(cs), so one order of each is enough
ColorLists ==
    {s \in UNION {[1..k -> Colors] : k \in 0..MaxListLen} :
        \A i \in 1..(Len(s) - 1) : s[i] <= s[i + 1]}

\* constraint maps of any content for the vertices 1..n: a list for every
\* vertex, for every vertex but one, or for every vertex and for one more
\* key (whose list, never read, is empty or one colour)
AnyConstraints(n) ==
    UNION {[K -> ColorLists] : K \in {1..n} \cup {(1..n) \ {v} : v \in 1..n}}
    \cup {f @@ ((n + 1) :> l) :
            f \in [1..n -> ColorLists],
            l \in {s \in ColorLists : Len(s) <= 1}}

Locals0 ==
    /\ vi = 0
    /\ error = NoError
    /\ allowed = EmptyDict
    /\ deg = EmptyDict
    /\ remaining_colors = EmptyDict
    /\ used_colors = EmptyDict
    /\ colored_incident = EmptyDict
    /\ edge_colors = EmptyDict
    /\ solutions = <<>>
    /\ stack = <<>>
    /\ backtrackCalls = 0
    /\ firstResult = <<>>
    /\ snap = <<>>
    /\ pruned = 0
    /\ T = EmptyGraph

\* every validated input on at most MaxNodes vertices, in every iteration order
InitValidated ==
    /\ \E n \in 0..MaxNodes : G \in SimpleGraphs(n)
    /\ vertex_colors \in ValidConstraints(G)
    /\ colorOrder \in Orderings(Colors)
    /\ pc = "check_keys"
    /\ call = 1
    /\ result = <<>>
    /\ Locals0

\* every input, validated or not, on at most MaxNodes - 1 vertices
InitAny ==
    /\ \E n \in 0..(MaxNodes - 1) :
          /\ G \in SimpleGraphs(n)
          /\ vertex_colors \in AnyConstraints(n)
    /\ colorOrder = SortedList(Colors)
    /\ pc = "check_keys"
    /\ call = 1
    /\ result = <<>>
    /\ Locals0

\* nx.cycle_graph(6) with red and blue at every vertex (lines 455-461);
\* the edges in the order G.edges() lists them: vertex by vertex, the
\* neighbours of 0 being 1 and 5
Hexagon ==
    [G |-> [nodes |-> <<0, 1, 2, 3, 4, 5>>,
            edges |-> <<<<0, 1>>, <<0, 5>>, <<1, 2>>, <<2, 3>>, <<3, 4>>,
                        <<4, 5>>>>],
     vertex_colors |-> [v \in 0..5 |-> <<"red", "blue">>]]

\* the complete graph on four vertices with the same three colours everywhere
K4 ==
    [G |-> [nodes |-> <<1, 2, 3, 4>>,
            edges |-> <<<<1, 2>>, <<1, 3>>, <<1, 4>>, <<2, 3>>, <<2, 4>>,
                        <<3, 4>>>>],
     vertex_colors |-> [v \in 1..4 |-> <<"a", "b", "c">>]]

\* the 4-cycle, as nx.cycle_graph(4), with A and B at every vertex
Square ==
    [G |-> [nodes |-> <<0, 1, 2, 3>>,
            edges |-> <<<<0, 1>>, <<0, 3>>, <<1, 2>>, <<2, 3>>>>],
     vertex_colors |-> [v \in 0..3 |-> <<"A", "B">>]]

InitExamples ==
    /\ \E x \in {Hexagon, Square, K4} :
          /\ G = x.G
          /\ vertex_colors = x.vertex_colors
          /\ colorOrder \in Orderings(UNION {Range(x.vertex_colors[v]) :
                                               v \in DOMAIN x.vertex_colors})
    /\ pc = "check_keys"
    /\ call = 1
    /\ result = <<>>
    /\ Locals0

\* the keys of the colourings handed to build_trade_graph directly
TradeKeys == {{}, {<<1, 2>>}, {<<1, 2>>, <<2, 3>>}}

\* build_trade_graph on any list of colourings over the same edges
InitSols ==
    /\ \E K \in TradeKeys :
          result \in UNION {[1..n -> [K -> Colors]] : n \in 0..MaxSols}
    /\ G = [nodes |-> <<>>, edges |-> <<>>]
    /\ vertex_colors = EmptyDict
    /\ colorOrder = SortedList(Colors)
    /\ pc = "sols_given"
    /\ call = 1
    /\ Locals0

Init == InitValidated \/ InitAny \/ InitExamples \/ InitSols

Next ==
    \/ CheckVertexSet
    \/ CheckVertex
    \/ InitSearch
    \/ BacktrackEnter
    \/ TryColor
    \/ Undo
    \/ LoopEnd
    \/ ReturnSolutions
    \/ CallAgain
    \/ BuildTradeGraph

Spec == Init /\ [][Next]_vars

\* the interpreter runs the one thread of the program on: a step that can
\* be taken is taken
FairSpec == Spec /\ WF_vars(Next)

(***************************************************************************)
(* What the claims speak of.                                               *)
(***************************************************************************)

Incident(e, v) == e[1] = v \/ e[2] = v

\* the colours a colouring puts on the edges at v
ColorsAt(col, v) == {col[e] : e \in {x \in DOMAIN col : Incident(x, v)}}

\* no colour twice at v
ProperAt(col, v) ==
    \A e, f \in DOMAIN col :
        (e # f /\ Incident(e, v) /\ Incident(f, v)) => col[e] # col[f]

\* col gives every vertex exactly its colour set, without a repeat
MeetsConstraints(col) ==
    \A v \in Range(G.nodes) :
        ProperAt(col, v) /\ ColorsAt(col, v) = Range(vertex_colors[v])

Palette == UNION {Range(vertex_colors[v]) : v \in DOMAIN vertex_colors}

\* brute force: every total assignment of colours to the edges that meets
\* the constraints
BruteForce == {f \in [Range(edges) -> Palette] : MeetsConstraints(f)}

HasDuplicate(v) == Cardinality(Range(vertex_colors[v])) # Len(vertex_colors[v])
SizeDiffers(v) == Len(vertex_colors[v]) # Degree(G, v)
FailsCheck(v) == HasDuplicate(v) \/ SizeDiffers(v)

SomeVertexFails ==
    /\ Range(G.nodes) = DOMAIN vertex_colors
    /\ \E i \in DOMAIN G.nodes : FailsCheck(G.nodes[i])

\* position in G.nodes() of the first vertex that fails a per-vertex check
FirstFailing ==
    CHOOSE i \in DOMAIN G.nodes :
        /\ FailsCheck(G.nodes[i])
        /\ \A j \in 1..(i - 1) : ~ FailsCheck(G.nodes[j])

ValidatedInput ==
    /\ pc # "sols_given"
    /\ Range(G.nodes) = DOMAIN vertex_colors
    /\ \A i \in DOMAIN G.nodes : ~ FailsCheck(G.nodes[i])

\* the caller holds a list the solver returned
Solved == pc = "done" \/ (pc = "trade_built" /\ call = 2)

(***************************************************************************)
(* C1: in every colouring of the returned list, at every vertex v, the     *)
(* colours on the edges at v are pairwise different and their set is       *)
(* set(vertex_colors[v]).                                                  *)
(***************************************************************************)
C1_Soundness ==
    Solved => \A i \in DOMAIN result : MeetsConstraints(result[i])

\* a returned list with several colourings of a graph with a vertex of
\* degree 3
C1_Witness ==
    /\ pc = "done"
    /\ Len(result) >= 2
    /\ \E v \in Range(G.nodes) : Degree(G, v) = 3
    /\ \A i \in DOMAIN result : MeetsConstraints(result[i])

(***************************************************************************)
(* C2: every total assignment of colours to edges that meets the           *)
(* constraints, as found by brute force, is in the returned list, and the  *)
(* length of the list is the brute-force count.                            *)
(***************************************************************************)
C2_Completeness ==
    pc = "done" =>
        /\ \A f \in BruteForce : \E i \in DOMAIN result : result[i] = f
        /\ Len(result) = Cardinality(BruteForce)

\* six colourings found, as brute force finds six
C2_Witness ==
    /\ pc = "done"
    /\ Len(result) = 6
    /\ Cardinality(BruteForce) = 6

(***************************************************************************)
(* C3: when the keys of vertex_colors are not the vertices of G, the       *)
(* solver raises the vertex-set-mismatch error and has done nothing else:  *)
(* no per-vertex check, no call of backtrack, no list returned.            *)
(***************************************************************************)
C3_VertexSetMismatch ==
    (pc \notin {"check_keys", "sols_given"}
        /\ Range(G.nodes) # DOMAIN vertex_colors)
    => /\ pc = "raised"
       /\ error.kind = "VertexSetMismatch"
       /\ vi = 0
       /\ allowed = EmptyDict
       /\ backtrackCalls = 0
       /\ result = <<>>

\* the mismatch raised on an input with an extra key whose lists also
\* hold a duplicate
C3_Witness ==
    /\ pc = "raised"
    /\ error.kind = "VertexSetMismatch"
    /\ DOMAIN vertex_colors \ Range(G.nodes) # {}
    /\ \E v \in DOMAIN vertex_colors : HasDuplicate(v)

(***************************************************************************)
(* C4: the vertex sets match and the first vertex v in node order that     *)
(* fails a per-vertex check has a repeated colour in its list: the solver  *)
(* never gets past v, raises the duplicate-colour error naming v, also     *)
(* when the size of the list differs from degree(v), and never calls       *)
(* backtrack.                                                              *)
(***************************************************************************)
C4_DuplicateColor ==
    (SomeVertexFails /\ HasDuplicate(G.nodes[FirstFailing]))
    => /\ pc \in {"check_keys", "check_vertex", "raised"}
       /\ pc = "check_vertex" => vi <= FirstFailing
       /\ pc = "raised" => error = DuplicateColor(G.nodes[FirstFailing])
       /\ backtrackCalls = 0
       /\ result = <<>>

\* the duplicate error raised at the second vertex in node order, whose
\* list also has the wrong size
C4_Witness ==
    /\ pc = "raised"
    /\ error.kind = "DuplicateColor"
    /\ SomeVertexFails
    /\ FirstFailing = 2
    /\ error.v = G.nodes[2]
    /\ SizeDiffers(G.nodes[2])

(***************************************************************************)
(* C5: the vertex sets match and the first vertex v in node order that     *)
(* fails a per-vertex check has no repeated colour but a list whose size   *)
(* is not degree(v): the solver never gets past v, raises the              *)
(* degree-mismatch error with v, degree(v) and the size of v's colour set, *)
(* and never calls backtrack.                                              *)
(***************************************************************************)
C5_DegreeMismatch ==
    (SomeVertexFails /\ ~ HasDuplicate(G.nodes[FirstFailing]))
    => /\ pc \in {"check_keys", "check_vertex", "raised"}
       /\ pc = "check_vertex" => vi <= FirstFailing
       /\ pc = "raised" =>
             error = DegreeMismatch(G.nodes[FirstFailing],
                                    Degree(G, G.nodes[FirstFailing]),
                                    Cardinality(Range(
                                        vertex_colors[G.nodes[FirstFailing]])))
       /\ backtrackCalls = 0
       /\ result = <<>>

\* the degree error raised at a vertex with fewer colours than edges
C5_Witness ==
    /\ pc = "raised"
    /\ error.kind = "DegreeMismatch"
    /\ SomeVertexFails
    /\ error.v = G.nodes[FirstFailing]
    /\ error.deg > error.ncolors
    /\ error.ncolors = Len(vertex_colors[error.v])

(***************************************************************************)
(* C6: on an input that passes the three checks the solver raises no       *)
(* error, before or during the search, and the call returns; when no       *)
(* colouring meets the constraints it returns the empty list.              *)
(***************************************************************************)
C6_NoErrorInSearch ==
    /\ [](ValidatedInput => (pc # "raised" /\ error.kind = "none"))
    /\ [](backtrackCalls > 0 => error.kind = "none")
    /\ []((pc = "done" /\ BruteForce = {}) => result = <<>>)
    /\ \A c \in {1, 2} :
          (ValidatedInput /\ call = c /\ pc = "check_keys")
              ~> (call = c /\ pc = "done")

\* the empty list returned after a search through three edges that no
\* colouring can fill
C6_Witness ==
    /\ pc = "done"
    /\ ValidatedInput
    /\ m = 3
    /\ backtrackCalls >= 3
    /\ BruteForce = {}
    /\ result = <<>>

(***************************************************************************)
(* C7: no edges and an empty colour list at every vertex: the solver       *)
(* returns the list of one colouring, the empty mapping.                   *)
(***************************************************************************)
C7_NoEdges ==
    (pc = "done" /\ m = 0
        /\ \A v \in DOMAIN vertex_colors : vertex_colors[v] = <<>>)
    => result = <<EmptyDict>>

\* returned for a graph of several vertices and no edge
C7_Witness ==
    /\ pc = "done"
    /\ m = 0
    /\ Len(G.nodes) >= 2
    /\ result = <<EmptyDict>>

(***************************************************************************)
(* C8: the second call on the same input, with the same edge order and     *)
(* the same iteration order of the colour sets, returns the same list as   *)
(* the first: same length, same colouring at every index.                  *)
(***************************************************************************)
C8_Determinism ==
    (pc = "done" /\ call = 2) => result = firstResult

\* the second call has returned several colourings
C8_Witness ==
    /\ pc = "done"
    /\ call = 2
    /\ Len(result) >= 2
    /\ result = firstResult

(***************************************************************************)
(* C9: the trade graph of sols has the nodes 0 .. len(sols)-1 and, for     *)
(* i # j, the edge {i, j} exactly when sols[i] and sols[j] differ on every *)
(* edge of the coloured graph; the empty list gives the empty graph.       *)
(***************************************************************************)
DifferEverywhere(s1, s2) ==
    \A e \in DOMAIN s1 \cup DOMAIN s2 : s1[e] # s2[e]

C9_TradeGraph ==
    pc = "trade_built" =>
        /\ T.nodes = {i - 1 : i \in DOMAIN result}
        /\ \A i, j \in T.nodes :
              i # j => ({i, j} \in T.edges
                          <=> DifferEverywhere(result[i + 1], result[j + 1]))
        /\ \A e \in T.edges : e \subseteq T.nodes
        /\ result = <<>> => T = EmptyGraph

\* three colourings: 0 and 1 differ everywhere, 2 shares a colour with each
C9_Witness ==
    /\ pc = "trade_built"
    /\ Len(result) = 3
    /\ T.edges = {{0, 1}}
    /\ \E e \in DOMAIN result[3] : result[3][e] = result[1][e]
    /\ \E e \in DOMAIN result[3] : result[3][e] = result[2][e]

(***************************************************************************)
(* C10: is_colortrade gives the same answer on (s1, s2) and (s2, s1) for   *)
(* colourings of the same edges, and the trade graph has no edge (i, i).   *)
(***************************************************************************)
C10_Symmetric ==
    pc = "trade_built" =>
        /\ \A i, j \in DOMAIN result :
              IsColortrade(result[i], result[j])
                  = IsColortrade(result[j], result[i])
        /\ \A e \in T.edges : Cardinality(e) = 2

\* a trade graph with an edge and a non-edge, built from a list that holds
\* the empty colouring or a repeated colouring
C10_Witness ==
    /\ pc = "trade_built"
    /\ T.edges # {}
    /\ \E i, j \in T.nodes : i # j /\ {i, j} \notin T.edges

(***************************************************************************)
(* C11: on a cycle of 4 or 6 vertices whose vertices all carry the same    *)
(* two colours, the solver returns exactly two colourings, each with the   *)
(* two colours alternating around the cycle, the two differ on every edge, *)
(* and the trade graph has the nodes 0 and 1 and the single edge (0, 1).   *)
(***************************************************************************)
Neighbours(g, S) ==
    {w \in Range(g.nodes) :
        \E e \in Range(g.edges) : \E v \in S : e \in {<<v, w>>, <<w, v>>}}

RECURSIVE Reach(_, _)
Reach(g, S) ==
    LET next == S \cup Neighbours(g, S)
    IN  IF next = S THEN S ELSE Reach(g, next)

IsCycle(g) ==
    /\ Len(g.nodes) \in {4, 6}
    /\ \A v \in Range(g.nodes) : Degree(g, v) = 2
    /\ Reach(g, {g.nodes[1]}) = Range(g.nodes)

SameTwoColors ==
    /\ DOMAIN vertex_colors = Range(G.nodes)
    /\ \E a, b \in Palette :
          /\ a # b
          /\ \A v \in Range(G.nodes) :
                Len(vertex_colors[v]) = 2 /\ Range(vertex_colors[v]) = {a, b}

Alternating(col) ==
    /\ DOMAIN col = Range(edges)
    /\ \A e \in DOMAIN col : col[e] \in Palette
    /\ \A e, f \in DOMAIN col :
          (e # f /\ \E v \in Range(G.nodes) : Incident(e, v) /\ Incident(f, v))
              => col[e] # col[f]

C11_Cycles ==
    (pc # "sols_given" /\ IsCycle(G) /\ SameTwoColors) =>
        /\ Solved =>
              /\ Len(result) = 2
              /\ \A i \in DOMAIN result : Alternating(result[i])
              /\ \A e \in Range(edges) : result[1][e] # result[2][e]
        /\ pc = "trade_built" =>
              T = [nodes |-> {0, 1}, edges |-> {{0, 1}}]

\* the trade graph of the hexagon example
C11_Witness ==
    /\ pc = "trade_built"
    /\ G = Hexagon.G
    /\ vertex_colors = Hexagon.vertex_colors
    /\ Len(result) = 2
    /\ T.edges = {{0, 1}}

(***************************************************************************)
(* C12: every colouring of the returned list has exactly the edges of the  *)
(* list enumerated at the start of the solve as its keys, each with one    *)
(* colour, and no other key.                                               *)
(***************************************************************************)
C12_KeysAreEdges ==
    Solved =>
        \A i \in DOMAIN result :
            /\ DOMAIN result[i] = Range(edges)
            /\ \A e \in Range(edges) : result[i][e] \in Palette

\* colourings of a graph with at least three edges returned
C12_Witness ==
    /\ pc = "done"
    /\ m >= 3
    /\ result # <<>>
    /\ \A i \in DOMAIN result : DOMAIN result[i] = Range(edges)

(***************************************************************************)
(* C13: exact undo.  At the head of the loop of backtrack(k), after the    *)
(* undo block of any candidate, remaining_colors, used_colors,             *)
(* colored_incident and edge_colors have the values they had just before   *)
(* the candidate was assigned, which are the values at the entry of        *)
(* backtrack(k); when control is back in the caller after backtrack(k + 1) *)
(* the values are those at the entry of backtrack(k + 1); and when         *)
(* backtrack(0) has returned they are the values it was entered with.      *)
(***************************************************************************)
Now ==
    SearchState(remaining_colors, used_colors, colored_incident, edge_colors)

Fresh ==
    SearchState([v \in Range(G.nodes) |-> Range(vertex_colors[v])],
                [v \in Range(G.nodes) |-> {}],
                [v \in Range(G.nodes) |-> 0],
                EmptyDict)

C13_ExactUndo ==
    /\ (pc = "search" /\ stack # <<>>) =>
          /\ Len(snap) = Len(stack)
          /\ Top.pc \in {"enter", "loop"} =>
                /\ Now = snap[Len(stack)].before
                /\ Now = snap[Len(stack)].entry
          /\ Top.pc = "undo" => Now = snap[Len(stack)].after
          /\ snap[1].entry = Fresh
    /\ ((pc = "search" /\ stack = <<>>) \/ pc = "done") => Now = Fresh

\* back at the head of the loop of an inner call after two candidates were
\* tried and undone
C13_Witness ==
    /\ pc = "search"
    /\ stack # <<>>
    /\ Top.pc = "loop"
    /\ Top.todo = <<>>
    /\ Top.edge_index >= 1
    /\ LET e == edges[Top.edge_index + 1]
       IN  Cardinality(PossibleColors(e[1], e[2])) >= 2
    /\ Now = snap[Len(stack)].before
    /\ snap[Len(stack)].after # Now

(***************************************************************************)
(* C14, as stated: the forward check abandons a branch.  Read on each      *)
(* search of a graph with an edge: by the time the solver returns, some    *)
(* tentative assignment has left an endpoint w with                        *)
(* len(remaining_colors[w]) > deg[w] - colored_incident[w] and was         *)
(* abandoned without the recursive call.                                   *)
(***************************************************************************)
C14_ForwardCheckPrunes ==
    (pc = "done" /\ m > 0) => pruned > 0

\* the state right after a tentative assignment that the forward check
\* rejects
Abandoned ==
    /\ pc = "search"
    /\ stack # <<>>
    /\ Top.pc = "undo"
    /\ \E w \in {edges[Top.edge_index + 1][1], edges[Top.edge_index + 1][2]} :
          Cardinality(remaining_colors[w]) > deg[w] - colored_incident[w]

(***************************************************************************)
(* C14, amended: the forward check never abandons a branch.  After every   *)
(* tentative assignment both endpoints w of the edge have                  *)
(* len(remaining_colors[w]) = deg[w] - colored_incident[w], so no state    *)
(* of any search satisfies the condition of the check and every            *)
(* assignment is followed by the recursive call.                           *)
(***************************************************************************)
C14_NeverPrunes ==
    /\ pruned = 0
    /\ ~ Abandoned
    /\ (pc = "search" /\ stack # <<>> /\ Top.pc = "undo") =>
          \A w \in {edges[Top.edge_index + 1][1],
                    edges[Top.edge_index + 1][2]} :
              Cardinality(remaining_colors[w]) = deg[w] - colored_incident[w]

\* the search of an instance without a colouring has returned after going
\* at least two edges deep, and the forward check cut nothing
C14_Witness ==
    /\ pc = "done"
    /\ result = <<>>
    /\ m >= 3
    /\ backtrackCalls >= 5
    /\ pruned = 0

(***************************************************************************)
(* C15: whenever backtrack is entered with edge_index = m,                 *)
(* remaining_colors[v] is empty for every vertex v, and the step that      *)
(* follows appends the complete assignment to solutions.                   *)
(***************************************************************************)
AtFull ==
    /\ pc = "search"
    /\ stack # <<>>
    /\ Top.pc = "enter"
    /\ Top.edge_index = m

C15_GuardRedundant ==
    /\ [](AtFull => \A v \in Range(G.nodes) : remaining_colors[v] = {})
    /\ [][AtFull => solutions' = Append(solutions, edge_colors)]_vars

\* a second complete assignment of a graph with three edges or more is
\* about to be recorded
C15_Witness ==
    /\ AtFull
    /\ m >= 3
    /\ Len(solutions) >= 1
    /\ DOMAIN edge_colors = Range(edges)
    /\ \A v \in Range(G.nodes) : remaining_colors[v] = {}

(***************************************************************************)
(* C16: a colouring appended to solutions is the complete assignment of    *)
(* that moment, and no later step of the search (an assignment, an undo,   *)
(* another append) changes an element the list already holds; the list     *)
(* returned is the list of the colourings as they were recorded.           *)
(***************************************************************************)
\* the list solutions as it reads in the current state
Listed == Returned(solutions, edge_colors)

C16_ValueCopies ==
    [][pc = "search" =>
          /\ Len(Listed') >= Len(Listed)
          /\ \A i \in DOMAIN Listed : Listed'[i] = Listed[i]
          /\ Len(Listed') > Len(Listed) =>
                /\ Len(Listed') = Len(Listed) + 1
                /\ Listed'[Len(Listed')] = edge_colors
                /\ DOMAIN edge_colors = Range(edges)
          /\ pc' = "done" => result' = Listed]_vars

\* two colourings are recorded and the search is inside a later branch
\* whose partial assignment differs from both
C16_Witness ==
    /\ pc = "search"
    /\ stack # <<>>
    /\ Len(solutions) >= 2
    /\ edge_colors # EmptyDict
    /\ \A i \in DOMAIN solutions :
          /\ DOMAIN solutions[i] = Range(edges)
          /\ \E e \in DOMAIN edge_colors : edge_colors[e] # solutions[i][e]

(***************************************************************************)
(* C17: the returned list holds no colouring twice: no two distinct        *)
(* indices of the list hold equal colourings.                              *)
(***************************************************************************)
C17_NoDuplicates ==
    Solved =>
        \A i, j \in DOMAIN result : i # j => result[i] # result[j]

\* four or more colourings returned, all different
C17_Witness ==
    /\ pc = "done"
    /\ Len(result) >= 4
    /\ Cardinality(Range(result)) = Len(result)

(***************************************************************************)
(* C18: at every entry to backtrack(k), for every vertex w: the keys of    *)
(* edge_colors are exactly the first k edges; colored_incident[w] is the   *)
(* number of those edges at w; used_colors[w] and remaining_colors[w] are  *)
(* disjoint and their union is set(vertex_colors[w]); used_colors[w] is    *)
(* the set of colours on the coloured edges at w; and                      *)
(* len(remaining_colors[w]) = deg[w] - colored_incident[w].                *)
(***************************************************************************)
AtEntry ==
    /\ pc = "search"
    /\ stack # <<>>
    /\ Top.pc = "enter"

FirstEdges(k) == {edges[i] : i \in 1..k}

C18_Bookkeeping ==
    AtEntry =>
        /\ DOMAIN edge_colors = FirstEdges(Top.edge_index)
        /\ \A w \in Range(G.nodes) :
              /\ colored_incident[w] =
                    Cardinality({i \in 1..Top.edge_index :
                                    Incident(edges[i], w)})
              /\ used_colors[w] \cap remaining_colors[w] = {}
              /\ used_colors[w] \cup remaining_colors[w]
                    = Range(vertex_colors[w])
              /\ used_colors[w] =
                    {edge_colors[e] :
                        e \in {x \in FirstEdges(Top.edge_index) :
                                  Incident(x, w)}}
              /\ deg[w] = Degree(G, w)
              /\ Cardinality(remaining_colors[w])
                    = deg[w] - colored_incident[w]

\* an entry with two or more edges coloured and an edge to go, after a
\* first colouring was recorded and its branch undone
C18_Witness ==
    /\ AtEntry
    /\ Top.edge_index >= 2
    /\ Top.edge_index < m
    /\ Len(solutions) >= 1
    /\ \E w \in Range(G.nodes) :
          used_colors[w] # {} /\ remaining_colors[w] # {}

====
